---- MODULE Spec2Model ----
(***************************************************************************)
(* Model of the delivery-worker ranking system: the scoring engine of      *)
(* ranking-calculator.js (per-shift points, daily-goal bonus, ranking) and *)
(* the upload pipeline of the store client (clear, batch inserts,          *)
(* recompute).                                                             *)
(*                                                                         *)
(* Texts are held the way the code takes them apart: a duration            *)
(* "HH:MM:SS" is the tuple of its ':'-separated parts, a date              *)
(* "YYYY-MM-DD[Thh:mm:ss<zone>]" is the tuple of its 'T'-separated parts.  *)
(* A missing or empty text is the empty tuple; a missing number is an      *)
(* absent record field.  Percentages are exact rationals <<num, den>>; a   *)
(* value rounded by toFixed(2) is held in hundredths.                      *)
(***************************************************************************)
EXTENDS Integers, Sequences, FiniteSets, TLC

VARIABLES
    turnos,         \* the batch handed to processarTodosOsTurnos
    fase,           \* position of the scoring pipeline
    turnosFinais,   \* result of processarTodosOsTurnos
    ranking,        \* result of calcularRanking
    turno,          \* the shift handed to calcularPontosTurno alone
    pontos,         \* its result (<<>> before the call)
    turnosProcessados,  \* argument of uploadCompleto (rows named 1..N)
    etapa,          \* position of uploadCompleto
    i,              \* loop index of uploadCompleto
    tabelaTurnos,   \* store table turnos_entregadores (rows in insert order)
    tabelaRanking,  \* store table ranking_entregadores, as the shift rows
                    \* it was last derived from
    chamadas,       \* store calls made so far, with their results
    limit,          \* argument of buscarRanking (0: null, or any falsy limit)
    linhas,         \* rows of ranking_entregadores at the read, named
                    \* 0..linhas-1 in the store's total_pontos-descending order
    leitura,        \* position of buscarRanking
    todosEntregadores,  \* rows read so far, as runs <<first, last>> of
                        \* consecutive rows
    from,           \* offset of the next page
    buscarMais,     \* loop flag of buscarRanking
    paginas,        \* pages requested so far
    ultimaResposta  \* how the last query of buscarRanking ended

varsLote == <<turnos, fase, turnosFinais, ranking>>
varsTurno == <<turno, pontos>>
varsUpload == <<turnosProcessados, etapa, i, tabelaTurnos, tabelaRanking,
                chamadas>>
varsLeitura == <<limit, linhas, leitura, todosEntregadores, from, buscarMais,
                 paginas, ultimaResposta>>
vars == <<turnos, fase, turnosFinais, ranking, turno, pontos,
          turnosProcessados, etapa, i, tabelaTurnos, tabelaRanking, chamadas,
          limit, linhas, leitura, todosEntregadores, from, buscarMais,
          paginas, ultimaResposta>>

\* Longest batch the pipeline is run on.
MaxTurnos == 3

\* Most batches an upload is split into.
MaxLotes == 2

\* const BATCH_SIZE = 500 in uploadCompleto
BATCH_SIZE == 500

\* Most full pages of the ranking tables read below the high limit.
MaxPaginas == 2

\* const batchSize = 1000 in buscarRanking
batchSize == 1000

\* limit <= 1000: the largest limit answered by a single query
LimiteSimples == 1000

\* limit || 1000000: the limit of a read without one
LimiteAlto == 1000000

----------------------------------------------------------------------------
(* Calendar and text conversions                                           *)

\* parseInt(text) || 0 on the two-character fields the model uses; a text
\* that is not a number gives NaN, which || turns into 0.
ParseIntOu0(s) ==
    CASE s = "00" -> 0
      [] s = "01" -> 1
      [] s = "02" -> 2
      [] s = "04" -> 4
      [] s = "05" -> 5
      [] s = "06" -> 6
      [] s = "07" -> 7
      [] s = "08" -> 8
      [] s = "09" -> 9
      [] s = "10" -> 10
      [] s = "20" -> 20
      [] s = "24" -> 24
      [] s = "25" -> 25
      [] s = "27" -> 27
      [] s = "30" -> 30
      [] s = "40" -> 40
      [] s = "46" -> 46
      [] s = "59" -> 59
      [] OTHER -> 0

durationToSeconds(duration) ==
    IF duration = <<>> THEN 0
    ELSE IF Len(duration) # 3 THEN 0
    ELSE ParseIntOu0(duration[1]) * 3600
         + ParseIntOu0(duration[2]) * 60
         + ParseIntOu0(duration[3])

\* The calendar date a date text names, <<year, month, day>>.
ParseData(s) ==
    CASE s = "2023-12-25" -> <<2023, 12, 25>>
      [] s = "2024-01-12" -> <<2024, 1, 12>>
      [] s = "2024-02-29" -> <<2024, 2, 29>>
      [] s = "2024-06-15" -> <<2024, 6, 15>>
      [] s = "2024-12-01" -> <<2024, 12, 1>>
      [] s = "2024-12-23" -> <<2024, 12, 23>>
      [] s = "2024-12-24" -> <<2024, 12, 24>>
      [] s = "2024-12-25" -> <<2024, 12, 25>>
      [] s = "2024-12-26" -> <<2024, 12, 26>>
      [] s = "2024-12-30" -> <<2024, 12, 30>>
      [] s = "2024-12-31" -> <<2024, 12, 31>>
      [] s = "2025-01-01" -> <<2025, 1, 1>>
      [] s = "2025-01-02" -> <<2025, 1, 2>>

\* The time-of-day text after 'T': <<hour, zone offset in hours>>.
ParseHora(s) ==
    CASE s = "00:00:00Z" -> <<0, 0>>
      [] s = "12:00:00.000Z" -> <<12, 0>>
      [] s = "22:00:00-03:00" -> <<22, -3>>
      [] s = "01:00:00+03:00" -> <<1, 3>>

Bissexto(a) == (a % 4 = 0 /\ a % 100 # 0) \/ a % 400 = 0

DiasNoMes(a, m) ==
    IF m = 2 THEN (IF Bissexto(a) THEN 29 ELSE 28)
    ELSE IF m \in {4, 6, 9, 11} THEN 30 ELSE 31

DiaSeguinte(d) ==
    IF d[3] < DiasNoMes(d[1], d[2]) THEN <<d[1], d[2], d[3] + 1>>
    ELSE IF d[2] < 12 THEN <<d[1], d[2] + 1, 1>>
    ELSE <<d[1] + 1, 1, 1>>

DiaAnterior(d) ==
    IF d[3] > 1 THEN <<d[1], d[2], d[3] - 1>>
    ELSE IF d[2] > 1 THEN <<d[1], d[2] - 1, DiasNoMes(d[1], d[2] - 1)>>
    ELSE <<d[1] - 1, 12, 31>>

\* new Date(text): the UTC calendar date of the instant the text names.  A
\* date-only text is UTC midnight of that date; a text with a time and a zone
\* is that local time moved to UTC, which can fall on a neighbouring day.
NovaDataUTC(data) ==
    LET d == ParseData(data[1]) IN
    IF Len(data) = 1 THEN d
    ELSE LET h == ParseHora(data[2])
             horaUTC == h[1] - h[2]
         IN IF horaUTC >= 24 THEN DiaSeguinte(d)
            ELSE IF horaUTC < 0 THEN DiaAnterior(d)
            ELSE d

isDataEspecial(date) ==
    LET dia == date[3]
        mes == date[2]
    IN \/ (dia = 24 /\ mes = 12)
       \/ (dia = 25 /\ mes = 12)
       \/ (dia = 31 /\ mes = 12)
       \/ (dia = 1 /\ mes = 1)

----------------------------------------------------------------------------
(* Per-shift score                                                         *)

\* The exact percentage as the rational <<num, den>>, den > 0.
calcularPercentualOnline(tempoOnline, duracaoTurno) ==
    LET segundosOnline == durationToSeconds(tempoOnline)
        segundosTurno == durationToSeconds(duracaoTurno)
    IN IF segundosTurno = 0 THEN <<0, 1>>
       ELSE <<segundosOnline * 100, segundosTurno>>

\* parseFloat(x.toFixed(2)) of the rational x = q[1] / q[2] >= 0, in
\* hundredths.  toFixed rounds the double it is given half up; on an exact
\* half the double's own representation error decides, and the inputs below
\* are chosen so that no value handed to toFixed is an exact half.
ToFixed2(q) == (200 * q[1] + q[2]) \div (2 * q[2])

\* turno.numero_de_corridas_completadas || 0
Corridas(t) ==
    IF "numero_de_corridas_completadas" \in DOMAIN t
    THEN t.numero_de_corridas_completadas
    ELSE 0

\* { ...a, ...b }
Merge(a, b) ==
    [k \in DOMAIN a \cup DOMAIN b |-> IF k \in DOMAIN b THEN b[k] ELSE a[k]]

\* percentualOnline >= 90
IsOnline90Plus_Estrito(percentualOnline) ==
    percentualOnline[1] > 90 * percentualOnline[2]

IsOnline90Plus(percentualOnline) ==
    percentualOnline[1] >= 90 * percentualOnline[2]

TotalPontosTurno_SemDataEspecial(pontosEntregas, bonus90Online, bonusDataEspecial) ==
    pontosEntregas + bonus90Online

TotalPontosTurno(pontosEntregas, bonus90Online, bonusDataEspecial) ==
    pontosEntregas + bonus90Online + bonusDataEspecial

calcularPontosTurno(t) ==
    LET percentualOnline ==
            calcularPercentualOnline(t.tempo_disponivel_absoluto,
                                     t.duracao_do_periodo)
        isOnline90Plus == IsOnline90Plus(percentualOnline)
        dataEspecial == isDataEspecial(NovaDataUTC(t.data_do_periodo))
        pontosEntregas == Corridas(t) * 10
        bonus90Online == IF isOnline90Plus THEN 50 ELSE 0
        bonusDataEspecial == IF isOnline90Plus /\ dataEspecial THEN 50 ELSE 0
        totalPontosTurno ==
            TotalPontosTurno(pontosEntregas, bonus90Online, bonusDataEspecial)
    IN [percentual_tempo_online |-> ToFixed2(percentualOnline),
        pontos_entregas |-> pontosEntregas,
        bonus_90_online |-> bonus90Online,
        bonus_data_especial |-> bonusDataEspecial,
        total_pontos_turno |-> totalPontosTurno]

----------------------------------------------------------------------------
(* Daily-goal bonus                                                        *)

\* `${turno.id_da_pessoa_entregadora}|${data}` with data = split('T')[0]
Chave_SemNormalizar(t) ==
    t.id_da_pessoa_entregadora \o "|" \o t.data_do_periodo[1]
        \o (IF Len(t.data_do_periodo) > 1
            THEN "T" \o t.data_do_periodo[2] ELSE "")

Chave(t) == t.id_da_pessoa_entregadora \o "|" \o t.data_do_periodo[1]

\* The groups hold references to the shifts of the batch: a group is the
\* sequence of the positions of its members, in the order they were pushed.
RECURSIVE AgruparAte(_, _)
AgruparAte(ts, n) ==
    IF n = 0 THEN [c \in {} |-> <<>>]
    ELSE LET grupos == AgruparAte(ts, n - 1)
             chave == Chave(ts[n])
         IN IF chave \in DOMAIN grupos
            THEN [grupos EXCEPT ![chave] = Append(@, n)]
            ELSE grupos @@ (chave :> <<n>>)

agruparPorDiaEntregador(ts) == AgruparAte(ts, Len(ts))

calcularEntregasNoDia_SoPrimeiro(ts, turnosDoDia) ==
    Corridas(ts[turnosDoDia[1]])

RECURSIVE calcularEntregasNoDia(_, _)
calcularEntregasNoDia(ts, turnosDoDia) ==
    IF turnosDoDia = <<>> THEN 0
    ELSE Corridas(ts[Head(turnosDoDia)])
         + calcularEntregasNoDia(ts, Tail(turnosDoDia))

calcularBonusMetaDiaria(entregasNoDia) ==
    IF entregasNoDia >= 30 THEN 300
    ELSE IF entregasNoDia >= 20 THEN 200
    ELSE 0

\* turnosDoDia[0] === turno: the same object, that is the same position.
primeiroTurnoDoDia_PorValor(ts, turnosDoDia, index) ==
    ts[turnosDoDia[1]] = ts[index]

primeiroTurnoDoDia(ts, turnosDoDia, index) == turnosDoDia[1] = index

processarTodosOsTurnos(ts) ==
    LET turnosComPontos ==
            [k \in 1..Len(ts) |-> Merge(ts[k], calcularPontosTurno(ts[k]))]
        gruposPorDia == agruparPorDiaEntregador(turnosComPontos)
    IN [index \in 1..Len(ts) |->
          LET t == turnosComPontos[index]
              turnosDoDia == gruposPorDia[Chave(t)]
              entregasNoDia == calcularEntregasNoDia(turnosComPontos, turnosDoDia)
              bonusMetaDiaria ==
                  IF primeiroTurnoDoDia(turnosComPontos, turnosDoDia, index)
                  THEN calcularBonusMetaDiaria(entregasNoDia)
                  ELSE 0
              totalPontosFinal == t.total_pontos_turno + bonusMetaDiaria
          IN Merge(t, [entregas_no_dia |-> entregasNoDia,
                       bonus_meta_diaria |-> bonusMetaDiaria,
                       total_pontos_final |-> totalPontosFinal])]

----------------------------------------------------------------------------
(* Ranking                                                                 *)

\* Position of the entry of worker id in the sequence es, 0 when absent.
Posicao(es, id) ==
    IF \E k \in 1..Len(es) : es[k].id_da_pessoa_entregadora = id
    THEN CHOOSE k \in 1..Len(es) : es[k].id_da_pessoa_entregadora = id
    ELSE 0

\* entregadores[id].total_pontos += turno.total_pontos_final || 0
AcumularPontos_SemMeta(total, t) == total + t.total_pontos_turno

AcumularPontos(total, t) == total + t.total_pontos_final

\* The forEach of calcularRanking over the first n shifts.  The object
\* `entregadores` is the sequence of its values in insertion order, which is
\* the order Object.values gives for keys that are not array indices.
RECURSIVE AcumularAte(_, _)
AcumularAte(ts, n) ==
    IF n = 0 THEN <<>>
    ELSE LET t == ts[n]
             id == t.id_da_pessoa_entregadora
             antes == AcumularAte(ts, n - 1)
             entregadores ==
                 IF Posicao(antes, id) = 0
                 THEN Append(antes,
                             [id_da_pessoa_entregadora |-> id,
                              pessoa_entregadora |-> t.pessoa_entregadora,
                              total_pontos |-> 0,
                              total_entregas |-> 0,
                              total_turnos |-> 0,
                              soma_percentual_online |-> 0])
                 ELSE antes
             p == Posicao(entregadores, id)
         IN [entregadores EXCEPT
               ![p].total_pontos = AcumularPontos(@, t),
               ![p].total_entregas = @ + Corridas(t),
               ![p].total_turnos = @ + 1,
               ![p].soma_percentual_online = @ + t.percentual_tempo_online]

\* The comparator of ranking.sort: (a, b) => b.total_pontos - a.total_pontos
Comparar_Crescente(a, b) == a.total_pontos - b.total_pontos

Comparar(a, b) == b.total_pontos - a.total_pontos

\* Array.prototype.sort is stable: InserirOrdenado puts e, which came later,
\* before the first entry the comparator orders after it.
RECURSIVE InserirOrdenado(_, _)
InserirOrdenado(s, e) ==
    IF s = <<>> THEN <<e>>
    ELSE IF Comparar(Head(s), e) > 0
         THEN <<e>> \o s
         ELSE <<Head(s)>> \o InserirOrdenado(Tail(s), e)

RECURSIVE OrdenarAte(_, _)
OrdenarAte(s, n) ==
    IF n = 0 THEN <<>> ELSE InserirOrdenado(OrdenarAte(s, n - 1), s[n])

Ordenar(s) == OrdenarAte(s, Len(s))

calcularRanking(ts) ==
    LET entregadores == AcumularAte(ts, Len(ts))
        lista ==
            [k \in 1..Len(entregadores) |->
               LET entregador == entregadores[k] IN
               [id_da_pessoa_entregadora |-> entregador.id_da_pessoa_entregadora,
                pessoa_entregadora |-> entregador.pessoa_entregadora,
                total_pontos |-> entregador.total_pontos,
                total_entregas |-> entregador.total_entregas,
                total_turnos |-> entregador.total_turnos,
                media_percentual_online |->
                    ToFixed2(<<entregador.soma_percentual_online,
                               100 * entregador.total_turnos>>)]]
    IN Ordenar(lista)

----------------------------------------------------------------------------
(* Upload pipeline: uploadCompleto and the store calls it makes.  A store  *)
(* call ends in one of three ways: "ok", "erro" (the result carries an     *)
(* error, as the store client reports a refused request or a network       *)
(* failure) or "excecao" (the awaited promise rejects).  A call that does  *)
(* not end "ok" leaves the store as it was.                                *)

Resultados == {"ok", "erro", "excecao"}

Min(a, b) == IF a < b THEN a ELSE b

\* turnosProcessados.slice(i, i + BATCH_SIZE)
Lote(ts, de) == SubSeq(ts, de + 1, Min(de + BATCH_SIZE, Len(ts)))

Registrar(op, de, res) ==
    Append(chamadas, [op |-> op, de |-> de, resultado |-> res])

\* limparTodosDados, first await: the result of the delete is not looked at,
\* only a rejected promise reaches the catch.
LimparRanking(res) ==
    /\ etapa = "limpar_ranking"
    /\ chamadas' = Registrar("delete_ranking", 0, res)
    /\ tabelaRanking' = IF res = "ok" THEN <<>> ELSE tabelaRanking
    /\ etapa' = IF res = "excecao" THEN "rejeitado" ELSE "limpar_turnos"
    /\ UNCHANGED <<turnosProcessados, i, tabelaTurnos>>
    /\ UNCHANGED <<varsLote, varsTurno, varsLeitura>>

\* limparTodosDados, second await, then the start of the loop.
LimparTurnos(res) ==
    /\ etapa = "limpar_turnos"
    /\ chamadas' = Registrar("delete_turnos", 0, res)
    /\ tabelaTurnos' = IF res = "ok" THEN <<>> ELSE tabelaTurnos
    /\ etapa' = IF res = "excecao" THEN "rejeitado" ELSE "inserir"
    /\ i' = 0
    /\ UNCHANGED <<turnosProcessados, tabelaRanking>>
    /\ UNCHANGED <<varsLote, varsTurno, varsLeitura>>

\* The loop condition i < turnosProcessados.length
HaMaisLotes_FaltaUm == i + BATCH_SIZE < Len(turnosProcessados)

HaMaisLotes == i < Len(turnosProcessados)

\* One turn of the loop: inserirTurnos(batch) throws on an error result and
\* on a rejected promise alike.
InserirLote(res) ==
    /\ etapa = "inserir"
    /\ HaMaisLotes
    /\ chamadas' = Registrar("insert", i, res)
    /\ IF res = "ok"
       THEN /\ tabelaTurnos' = tabelaTurnos \o Lote(turnosProcessados, i)
            /\ i' = i + BATCH_SIZE
            /\ etapa' = "inserir"
       ELSE /\ etapa' = "rejeitado"
            /\ UNCHANGED <<tabelaTurnos, i>>
    /\ UNCHANGED <<turnosProcessados, tabelaRanking>>
    /\ UNCHANGED <<varsLote, varsTurno, varsLeitura>>

\* After the loop: recalcularRanking, then the return.
RecalcularRanking(res) ==
    /\ etapa = "inserir"
    /\ ~HaMaisLotes
    /\ chamadas' = Registrar("rpc", 0, res)
    /\ tabelaRanking' = IF res = "ok" THEN tabelaTurnos ELSE tabelaRanking
    /\ etapa' = IF res = "ok" THEN "sucesso" ELSE "rejeitado"
    /\ UNCHANGED <<turnosProcessados, i, tabelaTurnos>>
    /\ UNCHANGED <<varsLote, varsTurno, varsLeitura>>

----------------------------------------------------------------------------
(* Ranking read: buscarRanking.  The store answers a query with the rows   *)
(* of the requested range in one fixed total_pontos-descending order; the  *)
(* rows are named by their place in that order.  A sequence of rows is     *)
(* held as the sequence of its runs <<first, last>> of consecutive rows.   *)

\* The rows first..last, none when last < first.
Intervalo(first, last) == IF last < first THEN <<>> ELSE <<(<<first, last>>)>>

\* todosEntregadores.concat(data), data being the rows of one run
Concat(runs, data) ==
    IF data = <<>> THEN runs
    ELSE IF runs # <<>> /\ runs[Len(runs)][2] + 1 = data[1][1]
    THEN [runs EXCEPT ![Len(runs)] = <<@[1], data[1][2]>>]
    ELSE runs \o data

\* array.length
RECURSIVE Tamanho(_)
Tamanho(runs) ==
    IF runs = <<>> THEN 0
    ELSE (Head(runs)[2] - Head(runs)[1] + 1) + Tamanho(Tail(runs))

\* array.slice(0, n)
RECURSIVE Slice(_, _)
Slice(runs, n) ==
    IF runs = <<>> \/ n <= 0 THEN <<>>
    ELSE LET r == Head(runs)
             t == r[2] - r[1] + 1
         IN IF t >= n THEN <<(<<r[1], r[1] + n - 1>>)>>
            ELSE <<r>> \o Slice(Tail(runs), n - t)

\* .range(from, to) on the ordered table: the rows from..to that exist.
Range(de, ate) == Intervalo(de, Min(ate, linhas - 1))

\* limit && limit <= 1000
BuscaSimples == limit # 0 /\ limit <= LimiteSimples

\* let totalLimit = limit || 1000000
totalLimit == IF limit # 0 THEN limit ELSE LimiteAlto

\* from += batchSize
ProximoFrom(de) == de + batchSize

\* The single query of a small limit.
ConsultaSimples(res) ==
    /\ leitura = "inicio"
    /\ BuscaSimples
    /\ ultimaResposta' = res
    /\ IF res = "ok"
       THEN /\ todosEntregadores' = Range(0, limit - 1)
            /\ leitura' = "retornou"
       ELSE /\ leitura' = "lancou"
            /\ UNCHANGED todosEntregadores
    /\ UNCHANGED <<limit, linhas, from, buscarMais, paginas>>
    /\ UNCHANGED <<varsLote, varsTurno, varsUpload>>

\* One turn of the while loop, up to the next await or the return: the page
\* query, its handling, and when the loop condition then fails the slice and
\* the return.
LerPagina(res) ==
    /\ \/ leitura = "inicio" /\ ~BuscaSimples
       \/ leitura = "paginando"
    /\ paginas' = paginas + 1
    /\ ultimaResposta' = res
    /\ IF res = "ok"
       THEN LET ate == from + batchSize - 1
                data == Range(from, ate)
                todos == Concat(todosEntregadores, data)
                mais == data # <<>> /\ ~(Tamanho(data) < batchSize)
            IN /\ from' = IF data # <<>> THEN ProximoFrom(from) ELSE from
               /\ buscarMais' = mais
               /\ IF mais /\ Tamanho(todos) < totalLimit
                  THEN /\ leitura' = "paginando"
                       /\ todosEntregadores' = todos
                  ELSE /\ leitura' = "retornou"
                       /\ todosEntregadores' =
                              IF limit # 0 /\ Tamanho(todos) > limit
                              THEN Slice(todos, limit)
                              ELSE todos
       ELSE /\ leitura' = "lancou"
            /\ UNCHANGED <<todosEntregadores, from, buscarMais>>
    /\ UNCHANGED <<limit, linhas>>
    /\ UNCHANGED <<varsLote, varsTurno, varsUpload>>

----------------------------------------------------------------------------
(* Inputs                                                                  *)

Ids == {"e1", "e2", "e3"}

Nome(id) == IF id = "e1" THEN "Ana" ELSE IF id = "e2" THEN "Bruno" ELSE "Caio"

\* A raw shift; corridas is a set with at most one number (none: the field
\* is missing).
TurnoBruto(id, data, duracao, tempo, corridas) ==
    LET base == [id_da_pessoa_entregadora |-> id,
                 pessoa_entregadora |-> Nome(id),
                 data_do_periodo |-> data,
                 duracao_do_periodo |-> duracao,
                 tempo_disponivel_absoluto |-> tempo]
    IN IF corridas = {} THEN base
       ELSE Merge(base, [numero_de_corridas_completadas |->
                             CHOOSE n \in corridas : TRUE])

\* Shifts of the batches: two workers over two days, one day written both
\* with and without a time, 90% online; and a few shifts below 90% or of a
\* third worker.
DatasLote ==
    {<<"2024-12-25">>, <<"2024-12-25", "12:00:00.000Z">>, <<"2024-12-26">>}

CorridasLote == {{}, {10}, {19}}

TurnosLote ==
    {TurnoBruto(id, data, <<"10", "00", "00">>, <<"09", "00", "00">>, corridas) :
        id \in {"e1", "e2"}, data \in DatasLote, corridas \in CorridasLote}
    \cup
    {TurnoBruto(id, <<"2024-12-25">>, <<"10", "00", "00">>,
                <<"08", "00", "00">>, {10}) : id \in {"e1", "e2"}}
    \cup
    {TurnoBruto("e3", <<"2024-12-25">>, <<"10", "00", "00">>,
                <<"09", "00", "00">>, {10}),
     TurnoBruto("e3", <<"2024-12-26">>, <<"10", "00", "00">>,
                <<"08", "00", "00">>, {19})}

\* Shifts whose percentages do not fit two decimals: 2, 4, 5 or 7 seconds
\* online out of 9, or a period of no length.
TurnosMedia ==
    {TurnoBruto(id, <<"2024-06-15">>, duracao, tempo, {1}) :
        id \in {"e1", "e2"},
        duracao \in {<<"00", "00", "09">>, <<"00", "00", "00">>},
        tempo \in {<<"00", "00", "02">>, <<"00", "00", "04">>,
                   <<"00", "00", "05">>, <<"00", "00", "07">>}}

\* Shifts fed in every order: one worker over two days, one day written both
\* with and without a time, 10 or 20 deliveries a shift; a second worker on
\* one day; and a shift below 90% online without a delivery count.
TurnosOrdem ==
    {TurnoBruto("e1", data, <<"10", "00", "00">>, <<"09", "00", "00">>, {c}) :
        data \in DatasLote, c \in {10, 20}}
    \cup
    {TurnoBruto("e2", <<"2024-12-25">>, <<"10", "00", "00">>,
                <<"09", "00", "00">>, {c}) : c \in {10, 20}}
    \cup
    {TurnoBruto("e1", <<"2024-12-25">>, <<"10", "00", "00">>,
                <<"08", "00", "00">>, {})}

\* Shifts scored one at a time.
DatasAvaliadas ==
    {<<d>> : d \in {"2023-12-25", "2024-01-12", "2024-02-29", "2024-06-15",
                    "2024-12-01", "2024-12-23", "2024-12-24", "2024-12-25",
                    "2024-12-26", "2024-12-30", "2024-12-31", "2025-01-01",
                    "2025-01-02"}}
    \cup
    {<<d, h>> : d \in {"2024-12-23", "2024-12-24", "2024-12-25", "2024-12-26",
                       "2024-12-31", "2025-01-01", "2025-01-02"},
                h \in {"00:00:00Z", "12:00:00.000Z", "22:00:00-03:00",
                       "01:00:00+03:00"}}

DuracoesAvaliadas ==
    {<<"10", "00", "00">>, <<"27", "46", "40">>, <<"00", "00", "00">>,
     <<"xx", "10", "00">>, <<"10", "00">>, <<>>}

TemposAvaliados ==
    {<<"09", "00", "00">>, <<"08", "59", "59">>, <<"10", "00", "00">>,
     <<"25", "00", "00">>, <<"24", "59", "59">>, <<"00", "09", "00">>, <<>>}

TurnosAvaliados ==
    {TurnoBruto("e1", data, duracao, tempo, corridas) :
        data \in DatasAvaliadas, duracao \in DuracoesAvaliadas,
        tempo \in TemposAvaliados, corridas \in {{}, {25}}}

\* Lengths of the uploads: around every multiple of the batch size.
Tamanhos ==
    {k * BATCH_SIZE + r : k \in 0..(MaxLotes - 1), r \in {0, 1, BATCH_SIZE}}

\* Rows the store holds before an upload.
Antigos == <<-1, -2>>

\* Sizes of the ranking table: around every multiple of the page size, and
\* at and just over the high limit.
TotaisRanking ==
    {k * batchSize + r : k \in 0..MaxPaginas, r \in {0, 1, batchSize - 1}}
    \cup {LimiteAlto, LimiteAlto + 1}

\* Limits of the reads; 0 is a read without a limit.
Limites == {0, 50, LimiteSimples, LimiteSimples + 1, 1500, 2 * batchSize,
            3 * batchSize - 1}

----------------------------------------------------------------------------
(* Specifications                                                          *)

TurnoNenhum == TurnoBruto("e1", <<"2024-06-15">>, <<>>, <<>>, {})

LoteParado ==
    /\ turnos = <<>>
    /\ fase = "parado"
    /\ turnosFinais = <<>>
    /\ ranking = <<>>

TurnoParado ==
    /\ turno = TurnoNenhum
    /\ pontos = <<>>

UploadParado ==
    /\ turnosProcessados = <<>>
    /\ etapa = "parado"
    /\ i = 0
    /\ tabelaTurnos = <<>>
    /\ tabelaRanking = <<>>
    /\ chamadas = <<>>

LeituraParada ==
    /\ limit = 0
    /\ linhas = 0
    /\ leitura = "parado"
    /\ todosEntregadores = <<>>
    /\ from = 0
    /\ buscarMais = TRUE
    /\ paginas = 0
    /\ ultimaResposta = "nenhuma"

\* The scoring pipeline: a batch is received shift by shift, scored by
\* processarTodosOsTurnos and aggregated by calcularRanking.
InitLote ==
    /\ turnos = <<>>
    /\ fase = "entrada"
    /\ turnosFinais = <<>>
    /\ ranking = <<>>
    /\ TurnoParado
    /\ UploadParado
    /\ LeituraParada

ReceberTurno(t) ==
    /\ fase = "entrada"
    /\ Len(turnos) < MaxTurnos
    /\ turnos' = Append(turnos, t)
    /\ UNCHANGED <<fase, turnosFinais, ranking>>
    /\ UNCHANGED <<varsTurno, varsUpload, varsLeitura>>

ProcessarTodosOsTurnos ==
    /\ fase = "entrada"
    /\ turnosFinais' = processarTodosOsTurnos(turnos)
    /\ fase' = "processado"
    /\ UNCHANGED <<turnos, ranking>>
    /\ UNCHANGED <<varsTurno, varsUpload, varsLeitura>>

CalcularRanking ==
    /\ fase = "processado"
    /\ ranking' = calcularRanking(turnosFinais)
    /\ fase' = "ranking"
    /\ UNCHANGED <<turnos, turnosFinais>>
    /\ UNCHANGED <<varsTurno, varsUpload, varsLeitura>>

Next ==
    \/ \E t \in TurnosLote : ReceberTurno(t)
    \/ ProcessarTodosOsTurnos
    \/ CalcularRanking

Spec == InitLote /\ [][Next]_vars

\* The same pipeline on the shifts of TurnosMedia.
NextMedia ==
    \/ \E t \in TurnosMedia : ReceberTurno(t)
    \/ ProcessarTodosOsTurnos
    \/ CalcularRanking

SpecMedia == InitLote /\ [][NextMedia]_vars

\* The same pipeline on the shifts of TurnosOrdem.
NextOrdem ==
    \/ \E t \in TurnosOrdem : ReceberTurno(t)
    \/ ProcessarTodosOsTurnos
    \/ CalcularRanking

SpecOrdem == InitLote /\ [][NextOrdem]_vars

\* calcularPontosTurno applied to one shift.
InitTurno ==
    /\ turno \in TurnosAvaliados
    /\ pontos = <<>>
    /\ LoteParado
    /\ UploadParado
    /\ LeituraParada

CalcularPontosTurno ==
    /\ pontos = <<>>
    /\ pontos' = calcularPontosTurno(turno)
    /\ UNCHANGED <<turno, varsLote, varsUpload, varsLeitura>>

NextTurno == CalcularPontosTurno

SpecTurno == InitTurno /\ [][NextTurno]_vars

\* uploadCompleto on a store that holds old rows or none.
InitUpload ==
    /\ \E n \in Tamanhos : turnosProcessados = [k \in 1..n |-> k]
    /\ etapa = "limpar_ranking"
    /\ i = 0
    /\ tabelaTurnos \in {<<>>, Antigos}
    /\ tabelaRanking = tabelaTurnos
    /\ chamadas = <<>>
    /\ LoteParado
    /\ TurnoParado
    /\ LeituraParada

NextUpload ==
    \/ \E res \in Resultados : LimparRanking(res)
    \/ \E res \in Resultados : LimparTurnos(res)
    \/ \E res \in Resultados : InserirLote(res)
    \/ \E res \in Resultados : RecalcularRanking(res)

SpecUpload == InitUpload /\ [][NextUpload]_vars

\* buscarRanking on a store that does not change during the read.
InitLeitura ==
    /\ limit \in Limites
    /\ linhas \in TotaisRanking
    /\ leitura = "inicio"
    /\ todosEntregadores = <<>>
    /\ from = 0
    /\ buscarMais = TRUE
    /\ paginas = 0
    /\ ultimaResposta = "nenhuma"
    /\ LoteParado
    /\ TurnoParado
    /\ UploadParado

NextLeitura ==
    \/ \E res \in Resultados : ConsultaSimples(res)
    \/ \E res \in Resultados : LerPagina(res)

SpecLeitura == InitLeitura /\ [][NextLeitura]_vars

----------------------------------------------------------------------------
(* Properties.  What a property expects is written from the raw input, not *)
(* with the operators of the code above.                                   *)

Processado == fase \in {"processado", "ranking"}

\* The completed deliveries of a raw shift, a missing count being 0.
Entregas(t) ==
    IF "numero_de_corridas_completadas" \in DOMAIN t
    THEN t.numero_de_corridas_completadas
    ELSE 0

\* The calendar day of a shift: its date text without the time after 'T'.
DiaCivil(t) == t.data_do_periodo[1]

\* Positions of the batch in the (worker, calendar day) group of position k.
Grupo(k) ==
    {j \in 1..Len(turnos) :
        /\ turnos[j].id_da_pessoa_entregadora = turnos[k].id_da_pessoa_entregadora
        /\ DiaCivil(turnos[j]) = DiaCivil(turnos[k])}

Primeiro(S) == CHOOSE k \in S : \A j \in S : k <= j

RECURSIVE Soma(_, _)
Soma(f, S) ==
    IF S = {} THEN 0
    ELSE LET k == CHOOSE x \in S : TRUE IN f[k] + Soma(f, S \ {k})

EntregasDoGrupo(k) ==
    Soma([j \in 1..Len(turnos) |-> Entregas(turnos[j])], Grupo(k))

MetaDiaria(total) ==
    IF total >= 30 THEN 300 ELSE IF total >= 20 THEN 200 ELSE 0

\* C1: in every (worker, calendar day) group of a processed batch the first
\* shift in input order carries the daily-goal bonus of the group's total
\* deliveries (300 from 30, 200 from 20, else 0) and every other shift
\* carries 0, so the bonuses of the group add up to that bonus.
C1_MetaDiariaUmaVez ==
    Processado =>
        /\ Len(turnosFinais) = Len(turnos)
        /\ \A k \in 1..Len(turnos) :
              /\ turnosFinais[k].bonus_meta_diaria =
                    IF k = Primeiro(Grupo(k))
                    THEN MetaDiaria(EntregasDoGrupo(k))
                    ELSE 0
              /\ Soma([j \in 1..Len(turnos) |->
                          turnosFinais[j].bonus_meta_diaria], Grupo(k))
                    = MetaDiaria(EntregasDoGrupo(k))

\* Two equal shifts of one worker and day reach 20 deliveries together: the
\* first carries 200 and its twin 0.
C1_Witness ==
    /\ fase = "processado"
    /\ \E k, j \in 1..Len(turnos) :
          /\ k < j
          /\ Grupo(k) = {k, j}
          /\ turnos[k] = turnos[j]
          /\ EntregasDoGrupo(k) = 20
          /\ turnosFinais[k].bonus_meta_diaria = 200
          /\ turnosFinais[j].bonus_meta_diaria = 0

\* Workers occurring in the finalized shifts, and the shifts of a worker.
IdsFinais == {turnosFinais[k].id_da_pessoa_entregadora : k \in 1..Len(turnosFinais)}

TurnosDe(id) ==
    {k \in 1..Len(turnosFinais) : turnosFinais[k].id_da_pessoa_entregadora = id}

\* C2: the ranking has exactly one entry per worker occurring in the
\* finalized shifts, and the entry's total_pontos is the sum of
\* total_pontos_final over that worker's shifts.
C2_TotalPorEntregador ==
    fase = "ranking" =>
        /\ Len(ranking) = Cardinality(IdsFinais)
        /\ {ranking[r].id_da_pessoa_entregadora : r \in 1..Len(ranking)} = IdsFinais
        /\ \A r \in 1..Len(ranking) :
              ranking[r].total_pontos =
                  Soma([k \in 1..Len(turnosFinais) |->
                           turnosFinais[k].total_pontos_final],
                       TurnosDe(ranking[r].id_da_pessoa_entregadora))

\* Two workers, one of them with two shifts of which one carries a daily-goal
\* bonus.
C2_Witness ==
    /\ fase = "ranking"
    /\ Len(ranking) = 2
    /\ \E r \in 1..2 :
          /\ ranking[r].total_turnos = 2
          /\ \E k \in TurnosDe(ranking[r].id_da_pessoa_entregadora) :
                turnosFinais[k].bonus_meta_diaria = 200
          /\ ranking[r].total_pontos = 600

\* C3: the ranking is sorted by total_pontos in descending order.
C3_OrdemDecrescente ==
    fase = "ranking" =>
        \A r \in 1..(Len(ranking) - 1) :
            ranking[r].total_pontos >= ranking[r + 1].total_pontos

\* Three workers met in ascending order of their points: the sort reverses
\* them.
C3_Witness ==
    /\ fase = "ranking"
    /\ Len(ranking) = 3
    /\ \A r \in 1..3 :
          ranking[r].id_da_pessoa_entregadora
              = turnosFinais[4 - r].id_da_pessoa_entregadora
    /\ ranking[1].total_pontos > ranking[2].total_pontos
    /\ ranking[2].total_pontos > ranking[3].total_pontos

\* C6: every finalized shift has pontos_entregas = 10 x completed deliveries
\* (a missing count being 0), total_pontos_turno = pontos_entregas +
\* bonus_90_online + bonus_data_especial and total_pontos_final =
\* total_pontos_turno + bonus_meta_diaria.
C6_Totais ==
    Processado =>
        \A k \in 1..Len(turnosFinais) :
            LET f == turnosFinais[k] IN
            /\ f.pontos_entregas = 10 * Entregas(turnos[k])
            /\ f.total_pontos_turno =
                   f.pontos_entregas + f.bonus_90_online + f.bonus_data_especial
            /\ f.total_pontos_final = f.total_pontos_turno + f.bonus_meta_diaria

\* A shift with every bonus (190 + 50 + 50 + 200 = 490) next to a shift
\* without a delivery count.
C6_Witness ==
    /\ fase = "processado"
    /\ \E k, j \in 1..Len(turnosFinais) :
          /\ turnosFinais[k].bonus_90_online = 50
          /\ turnosFinais[k].bonus_data_especial = 50
          /\ turnosFinais[k].bonus_meta_diaria = 200
          /\ turnosFinais[k].total_pontos_final = 490
          /\ "numero_de_corridas_completadas" \notin DOMAIN turnos[j]
          /\ turnosFinais[j].pontos_entregas = 0

\* C9: processarTodosOsTurnos returns one finalized shift per input shift, in
\* the input's order and with the input's fields; every input shift is in
\* exactly one (worker, calendar day) group, once; and entregas_no_dia is the
\* sum of the deliveries of all input shifts of the same worker and calendar
\* day.
C9_NenhumTurnoPerdido ==
    Processado =>
        /\ Len(turnosFinais) = Len(turnos)
        /\ \A k \in 1..Len(turnos) :
              /\ \A c \in DOMAIN turnos[k] : turnosFinais[k][c] = turnos[k][c]
              /\ turnosFinais[k].entregas_no_dia = EntregasDoGrupo(k)
        /\ LET grupos == agruparPorDiaEntregador(turnos) IN
           \A k \in 1..Len(turnos) :
               Cardinality({<<c, p>> \in (DOMAIN grupos) \X (1..Len(turnos)) :
                               p \in DOMAIN grupos[c] /\ grupos[c][p] = k}) = 1

\* A day written with and without a time: both shifts count for the same
\* day, a third shift of the next day does not.
C9_Witness ==
    /\ fase = "processado"
    /\ Len(turnos) = 3
    /\ \E k, j \in 1..3 :
          /\ Grupo(k) = {k, j}
          /\ Len(turnos[k].data_do_periodo) = 1
          /\ Len(turnos[j].data_do_periodo) = 2
          /\ turnosFinais[k].entregas_no_dia = 29
          /\ turnosFinais[j].entregas_no_dia = 29
          /\ \E m \in 1..3 :
                /\ turnos[m].id_da_pessoa_entregadora
                       = turnos[k].id_da_pessoa_entregadora
                /\ turnosFinais[m].entregas_no_dia = 19
                /\ Grupo(m) = {m}

Avaliado == DOMAIN pontos # {}

DatasEspeciais == {<<24, 12>>, <<25, 12>>, <<31, 12>>, <<1, 1>>}

\* C5: bonus_data_especial is 50 exactly when bonus_90_online is 50 and the
\* calendar date of the shift (the date its text names, whatever the year)
\* is Dec 24, Dec 25, Dec 31 or Jan 1; otherwise it is 0.
C5_DataEspecial ==
    Avaliado =>
        LET d == ParseData(DiaCivil(turno)) IN
        pontos.bonus_data_especial =
            IF pontos.bonus_90_online = 50 /\ <<d[3], d[2]>> \in DatasEspeciais
            THEN 50 ELSE 0

\* Offsets of the batches of the upload.
Offsets ==
    {de \in 0..Len(turnosProcessados) :
        de < Len(turnosProcessados) /\ de % BATCH_SIZE = 0}

ChamadasDe(op) == {p \in DOMAIN chamadas : chamadas[p].op = op}

\* C7: recompute is invoked only after every batch of the upload has been
\* inserted, no insert is issued after it, and an upload that returns
\* success has invoked it exactly once.
C7_RecalculoDepoisDosLotes ==
    /\ \A p \in ChamadasDe("rpc") :
          /\ \A de \in Offsets :
                \E q \in 1..(p - 1) :
                    chamadas[q] = [op |-> "insert", de |-> de, resultado |-> "ok"]
          /\ \A q \in ChamadasDe("insert") : q < p
    /\ etapa = "sucesso" => Cardinality(ChamadasDe("rpc")) = 1

\* A successful upload of two batches.
C7_Witness ==
    /\ etapa = "sucesso"
    /\ Len(turnosProcessados) = BATCH_SIZE + 1
    /\ Cardinality(ChamadasDe("insert")) = 2
    /\ chamadas[Len(chamadas)].op = "rpc"

\* C8: a store call that fails during uploadCompleto makes it reject: no
\* upload returns success after a failed call, and a failed insert or
\* recompute is the last call of the upload (no later batch, no retry, no
\* recompute).
C8_FalhaPropagada ==
    /\ etapa = "sucesso" =>
          \A p \in DOMAIN chamadas : chamadas[p].resultado = "ok"
    /\ \A p \in ChamadasDe("insert") \cup ChamadasDe("rpc") :
          chamadas[p].resultado # "ok" =>
              /\ p = Len(chamadas)
              /\ etapa = "rejeitado"

\* Exact arithmetic on rationals <<num, den>>, den > 0.
RECURSIVE SomaRacional(_, _)
SomaRacional(f, S) ==
    IF S = {} THEN <<0, 1>>
    ELSE LET k == CHOOSE x \in S : TRUE
             r == SomaRacional(f, S \ {k})
         IN <<f[k][1] * r[2] + r[1] * f[k][2], f[k][2] * r[2]>>

\* A rational >= 0 rounded half up to hundredths, in hundredths.
Centesimos(q) == (200 * q[1] + q[2]) \div (2 * q[2])

\* The exact online percentage of a raw shift.
PercentualExato(t) ==
    LET online == durationToSeconds(t.tempo_disponivel_absoluto)
        periodo == durationToSeconds(t.duracao_do_periodo)
    IN IF periodo = 0 THEN <<0, 1>> ELSE <<100 * online, periodo>>

\* C10: media_percentual_online is the mean of the worker's exact online
\* percentages, rounded to two decimals once.
C10_MediaExata ==
    fase = "ranking" =>
        \A r \in 1..Len(ranking) :
            LET S == TurnosDe(ranking[r].id_da_pessoa_entregadora)
                soma == SomaRacional([k \in 1..Len(turnos) |->
                                         PercentualExato(turnos[k])], S)
            IN ranking[r].media_percentual_online =
                   Centesimos(<<soma[1], soma[2] * Cardinality(S)>>)

\* Reads that page: without a limit, or with one over 1000.
LeituraPaginada == limit = 0 \/ limit > LimiteSimples

\* C11: a paged read (limit null or over 1000) asks for the pages at offsets
\* 0, 1000, 2000, ... and stops at the first page that is empty or short or
\* once the limit is reached, so it ends within linhas / 1000 + 1 pages; when
\* it returns, the result is exactly the first min(linhas, limit) rows (all
\* rows without a limit) in the store's order, none twice and none skipped;
\* a failed query ends the read with the error thrown.
C11_LeituraCompleta ==
    LeituraPaginada =>
        /\ paginas <= linhas \div batchSize + 1
        /\ leitura = "paginando" => from = paginas * batchSize
        /\ leitura = "retornou" =>
              todosEntregadores =
                  Intervalo(0, (IF limit = 0 THEN linhas ELSE Min(linhas, limit)) - 1)
        /\ leitura = "lancou" <=> ultimaResposta \in {"erro", "excecao"}

\* C12: an upload that returns success leaves in the shift table exactly the
\* records of turnosProcessados, each once and in input order, inserted in
\* consecutive batches of at most 500, and none of the rows stored before
\* the call, whatever the clear of the old data answered.
C12_SomenteOsNovos ==
    etapa = "sucesso" =>
        /\ tabelaTurnos = turnosProcessados
        /\ \A p \in ChamadasDe("insert") :
              /\ chamadas[p].de = (p - 3) * BATCH_SIZE
              /\ Len(Lote(turnosProcessados, chamadas[p].de)) \in 1..BATCH_SIZE

\* The batch ts in the order p, a permutation of its positions.
Permutar(ts, p) == [k \in 1..Len(ts) |-> ts[p[k]]]

\* What a ranking says of each worker, whatever the order of its entries.
Totais(r) ==
    {<<r[k].id_da_pessoa_entregadora, r[k].total_pontos, r[k].total_entregas,
       r[k].total_turnos>> : k \in 1..Len(r)}

\* The raw shifts of ts that carry a daily-goal bonus once processed.
ComBonus(ts) ==
    LET finais == processarTodosOsTurnos(ts)
    IN {ts[k] : k \in {j \in 1..Len(ts) : finais[j].bonus_meta_diaria > 0}}

\* C13: the ranking does not depend on the order of the input: for every
\* reordering of the batch of raw shifts, processarTodosOsTurnos followed by
\* calcularRanking gives every worker the same total_pontos, total_entregas
\* and total_turnos as the ranking of the batch in the order received.
C13_OrdemIrrelevante ==
    fase = "ranking" =>
        \A p \in Permutations(1..Len(turnos)) :
            Totais(calcularRanking(processarTodosOsTurnos(Permutar(turnos, p))))
                = Totais(ranking)

\* A ranking of two workers where some reordering of the batch moves a
\* daily-goal bonus onto a shift with other content.
C13_Witness ==
    /\ fase = "ranking"
    /\ Len(ranking) = 2
    /\ \E r \in 1..Len(ranking) : ranking[r].total_turnos = 2
    /\ \E p \in Permutations(1..Len(turnos)) :
          ComBonus(Permutar(turnos, p)) # ComBonus(turnos)

====
